---- MODULE Spec2Model ----
(***************************************************************************)
(* A model of cratesync's download_crates (src/main.rs): the ledger load,  *)
(* the skip filter that builds the work queue, the worker threads that     *)
(* fetch, verify and commit each crate file, and the reporter loop.        *)
(*                                                                         *)
(* Files are byte sequences; the file system is a function from the paths  *)
(* that exist to their content.  The ledger file "403" is a sequence of    *)
(* tokens: a token is a piece of text without a line break, or the line    *)
(* break NL itself.  SHA-256 is replaced by a one-byte rolling digest,     *)
(* encoded in lowercase hex as the code encodes the real one.              *)
(***************************************************************************)
EXTENDS Naturals, Sequences, FiniteSets, TLC

\* ------------------------------------------------------------------ bounds

\* Number of (name, version) pairs the catalog may list.
NItems == 2
\* Largest value of the --connections argument.
MaxConnections == 2
\* Number of invocations of the program on the same directory.
MaxRuns == 2

\* ------------------------------------------------------- catalog universe

\* (name, version) pairs in BTreeMap iteration order: by name, then version.
AllKeys ==
    << [name |-> "bar", vers |-> "2.0.0"],
       [name |-> "foo", vers |-> "1.0.0"],
       [name |-> "foo", vers |-> "1.0.1"],
       [name |-> "qux", vers |-> "0.1.0"] >>

AllNames == << "bar", "foo", "qux" >>

KeyIdx == 1..(IF NItems < Len(AllKeys) THEN NItems ELSE Len(AllKeys))

Keys == { AllKeys[i] : i \in KeyIdx }

\* Response bodies the server may send.
BodySeq == << <<1>>, <<2, 3>> >>

Bodies == { BodySeq[i] : i \in 1..Len(BodySeq) }

\* Content of a crate file that was on disk before the first run.
OldBody == <<7>>

\* HTTP status codes the server may answer with.
StatusCodes == { 200, 300, 403, 404, 500 }

NL == "\n"

\* ---------------------------------------------------------- pure functions

Min(a, b) == IF a < b THEN a ELSE b

\* The stand-in for Sha256: a rolling digest of one byte.
RECURSIVE Sha256From(_, _)
Sha256From(h, data) ==
    IF data = <<>> THEN h
    ELSE Sha256From((h * 31 + Head(data) + 1) % 256, Tail(data))

Sha256(data) == Sha256From(5, data)

HexDigits ==
    << "0", "1", "2", "3", "4", "5", "6", "7",
       "8", "9", "a", "b", "c", "d", "e", "f" >>

\* base16ct::lower::encode_string of a one-byte digest.
EncodeLower(d) == HexDigits[(d \div 16) + 1] \o HexDigits[(d % 16) + 1]

\* format!("crates/{name}/{name}-{version}.crate")
File(k) == "crates/" \o k.name \o "/" \o k.name \o "-" \o k.vers \o ".crate"

\* A download written straight to the final path.
PartialFileSame(file) == file

\* format!("{file}.partial")
PartialFile(file) == file \o ".partial"

\* One directory for all names.
DirFlat(name) == "crates"

\* format!("crates/{name}")
Dir(name) == "crates/" \o name

\* format!("{file}\n") as ledger tokens.
LedgerLine(file) == << file, NL >>

\* str::lines() collected into a HashSet: the text between line breaks; a
\* last line needs no line break, and an empty last line is no line.
RECURSIVE LinesFrom(_, _, _)
LinesFrom(toks, cur, acc) ==
    IF toks = <<>> THEN (IF cur = "" THEN acc ELSE acc \cup {cur})
    ELSE IF Head(toks) = NL THEN LinesFrom(Tail(toks), "", acc \cup {cur})
    ELSE LinesFrom(Tail(toks), cur \o Head(toks), acc)

Lines(toks) == LinesFrom(toks, "", {})

\* A write through a handle whose offset is at the start of the file.
WriteAtStart(toks, pos, new) ==
    new \o SubSeq(toks, Len(new) + 1, Len(toks))

\* A write of `new` at token offset `pos` of a file opened without O_APPEND.
WriteAt(toks, pos, new) ==
    SubSeq(toks, 1, pos) \o new \o SubSeq(toks, pos + Len(new) + 1, Len(toks))

\* Path::new(&file).exists()
Exists(disk, path) == path \in DOMAIN disk

\* A test that forgets the files on disk.
PendingNoDisk(set, disk, file) == file \notin set

\* A test that forgets the ledger.
PendingNoLedger(set, disk, file) == ~Exists(disk, file)

\* The skip filter's test of one catalog entry (main.rs line 82).
Pending(set, disk, file) == file \notin set /\ ~Exists(disk, file)

\* A test that never takes the early return.
NothingToDoNever(todo) == FALSE

\* if n_todo == 0 { ...; return Ok(()); }
NothingToDo(todo) == todo = 0

\* args.connections.min(n_todo)
NThreads(conns, todo) == Min(conns, todo)

\* A test that takes every client error for a denial.
IsClientError(status) == status >= 400 /\ status < 500

\* response.status() == StatusCode::FORBIDDEN
IsForbidden(status) == status = 403

\* Response::error_for_status fails on client and server errors only.
ErrorForStatusFails(status) == status >= 400 /\ status < 600

\* A comparison that lets every digest pass.
ChecksumOkAlways(hash, cksum) == TRUE

\* ensure!(&hash == cksum, ...)
ChecksumOk(hash, cksum) == hash = cksum

\* An open that creates the file and keeps what an existing file holds.
OpenKeep(disk, path) ==
    [p \in DOMAIN disk \cup {path} |->
        IF Exists(disk, p) THEN disk[p] ELSE <<>>]

\* File::options().create(true).truncate(true).open(path)
OpenTruncate(disk, path) ==
    [p \in DOMAIN disk \cup {path} |-> IF p = path THEN <<>> ELSE disk[p]]

\* The file at `path` after `data` was written to it from offset 0: bytes
\* the file held beyond the end of `data` stay.
WriteFile(disk, path, data) ==
    [p \in DOMAIN disk \cup {path} |->
        IF p # path THEN disk[p]
        ELSE IF Exists(disk, path)
        THEN data \o SubSeq(disk[path], Len(data) + 1, Len(disk[path]))
        ELSE data]

\* A copy to the final path that leaves the source behind.
RenameFileKeep(disk, from, to) ==
    [p \in DOMAIN disk \cup {to} |-> IF p = to THEN disk[from] ELSE disk[p]]

\* fs::rename(from, to)
RenameFile(disk, from, to) ==
    [p \in (DOMAIN disk \ {from}) \cup {to} |->
        IF p = to THEN disk[from] ELSE disk[p]]

\* A pop that reads the front item and leaves it in the queue.
PopFrontKeep(q) ==
    IF q = <<>> THEN [some |-> FALSE, rest |-> q]
    ELSE [some |-> TRUE, item |-> Head(q), rest |-> q]

\* VecDeque::pop_front under the queue's lock.
PopFront(q) ==
    IF q = <<>> THEN [some |-> FALSE, rest |-> q]
    ELSE [some |-> TRUE, item |-> Head(q), rest |-> Tail(q)]

\* A copy of the buffer that leaves its content where it was.
TakeCopy(buf) == [taken |-> buf, left |-> buf]

\* std::mem::take on the buffer, under its lock: what the caller gets, and
\* what the buffer holds afterwards.
Take(buf) == [taken |-> buf, left |-> <<>>]

\* A counter that counts calls, not amounts.
FetchAddOne(n, d) == n + 1

\* An addition that is lost.
FetchAddLost(n, d) == n

\* AtomicUsize::fetch_add / AtomicU64::fetch_add
FetchAdd(n, d) == n + d

\* Names of the catalog, in BTreeMap order.
IndexNames(idx) ==
    SelectSeq(AllNames, LAMBDA n : \E k \in DOMAIN idx : k.name = n)

\* The catalog's entries of one name, in BTreeMap order.
VersionsOf(idx, n) ==
    SelectSeq(AllKeys, LAMBDA k : k \in DOMAIN idx /\ k.name = n)

\* The expected checksum the catalog lists for the i-th key.
CatalogCksum(i) == EncodeLower(Sha256(BodySeq[((i - 1) % Len(BodySeq)) + 1]))

\* The (name, version) of a work item.
KeyOf(it) == [name |-> it.name, vers |-> it.vers]

\* The work item the skip filter pushes: (name, version, &data.cksum).
WorkItem(idx, k) == [name |-> k.name, vers |-> k.vers, cksum |-> idx[k]]

\* A read that leaves the handle's offset where it was.
ReadToStringAt(toks, pos) ==
    [text |-> SubSeq(toks, pos + 1, Len(toks)), pos |-> pos]

\* File::read_to_string from offset pos: the text read and the new offset.
ReadToString(toks, pos) ==
    [text |-> SubSeq(toks, pos + 1, Len(toks)), pos |-> Len(toks)]

\* The catalog restricted to the keys in S.
IndexOf(S) ==
    [k \in S |-> CatalogCksum(CHOOSE i \in KeyIdx : AllKeys[i] = k)]

RECURSIVE SeqOfLines(_, _)
\* The ledger that lists, in catalog order, the files of the keys in S.
SeqOfLines(i, S) ==
    IF i > Len(AllKeys) THEN <<>>
    ELSE (IF AllKeys[i] \in S THEN LedgerLine(File(AllKeys[i])) ELSE <<>>)
            \o SeqOfLines(i + 1, S)

\* ------------------------------------------------------------------- state

VARIABLES
    \* the program's inputs and the directory it runs in
    index,          \* Index.crates: (name, version) -> cksum
    connections,    \* args.connections
    fs,             \* the files under crates/: path -> bytes
    dirs,           \* the directories under crates/
    ledger,         \* the tokens of the file "403"
    run,            \* which invocation of the program this is
    \* download_crates, main thread
    pc,             \* where the main thread is
    x403_pos,       \* the offset of the handle x403_file, in tokens
    x403_log,       \* the text of "403" as loaded
    x403_set,       \* the lines of "403" as loaded
    names_left,     \* the names the queue-building loop has yet to visit
    queue,          \* the work queue
    n_todo,
    n_threads,
    spawned,        \* the number of workers spawned so far
    errors,         \* the error buffer
    n_done,
    bytes,
    printed,        \* the error lines printed so far
    \* the worker threads
    wpc,            \* where each worker is
    item,           \* the item each worker holds
    resp,           \* the response each worker holds
    err,            \* the error each worker's closure returned
    \* history
    enqueued,       \* the keys the skip filter pushed, this run
    taken,          \* how often pop_front returned each key, this run
    response,       \* what the server answered for each key, this run
    outcome,        \* each key's terminal outcome, this run
    digest,         \* the hex digest computed for each key, this run
    received,       \* the body bytes copy_to received for each key, this run
    prev,           \* how the run before this one ended, and what it left
    requests,       \* the number of GETs sent for each key, all runs
    denied          \* the keys whose 403 line this program wrote, all runs

envVars == << index, connections, fs, dirs, ledger, run >>
mainVars ==
    << pc, x403_pos, x403_log, x403_set, names_left, queue, n_todo,
       n_threads, spawned, errors, n_done, bytes, printed >>
workerVars == << wpc, item, resp, err >>
histVars ==
    << enqueued, taken, response, outcome, digest, received, requests,
       denied, prev >>
vars == << envVars, mainVars, workerVars, histVars >>

Workers == 1..MaxConnections

NoItem == [name |-> "", vers |-> "", cksum |-> ""]
NoKey == [name |-> "", vers |-> ""]
NoResponse == [kind |-> "none", status |-> 0, body |-> <<>>]
NoError == [key |-> NoKey, kind |-> "none", expected |-> "", actual |-> ""]

\* What one GET can end in: a transport error, or a response with a status
\* and, unless the status is an error status, a body.
Responses ==
    { [kind |-> "error", status |-> 0, body |-> <<>>] }
        \cup { [kind |-> "response", status |-> s, body |-> <<>>] :
                 s \in { t \in StatusCodes : t >= 400 } }
        \cup { [kind |-> "response", status |-> s, body |-> b] :
                 s \in { t \in StatusCodes : t < 400 }, b \in Bodies }

\* The strict prefixes of a body: what a broken transfer leaves on disk.
Prefixes(b) == { SubSeq(b, 1, n) : n \in 0..(Len(b) - 1) }

\* An error whose message leaves out the digest that was found.
ErrorRecordNoActual(k, kind, expected, actual) ==
    [key |-> k, kind |-> kind, expected |-> expected, actual |-> ""]

\* The anyhow::Error a worker's closure returns; key stands for what in the
\* message tells the item: it is there to count the records of an item.
ErrorRecord(k, kind, expected, actual) ==
    [key |-> k, kind |-> kind, expected |-> expected, actual |-> actual]

\* The keys whose partial path holds bytes.
Stale(disk) ==
    { k \in Keys :
        /\ Exists(disk, PartialFile(File(k)))
        /\ disk[PartialFile(File(k))] # <<>> }

\* The values the per-run history starts from.
NoneTaken == [k \in Keys |-> 0]
NoResponses == [k \in Keys |-> NoResponse]
NoOutcomes == [k \in Keys |-> "none"]
NoDigests == [k \in Keys |-> ""]
NoneReceived == [k \in Keys |-> 0]

\* The state of a process that has just entered download_crates.
Fresh ==
    /\ pc = "open"
    /\ x403_pos = 0
    /\ x403_log = <<>>
    /\ x403_set = {}
    /\ names_left = <<>>
    /\ queue = <<>>
    /\ n_todo = 0
    /\ n_threads = 0
    /\ spawned = 0
    /\ errors = <<>>
    /\ n_done = 0
    /\ bytes = 0
    /\ printed = <<>>
    /\ wpc = [w \in Workers |-> "unspawned"]
    /\ item = [w \in Workers |-> NoItem]
    /\ resp = [w \in Workers |-> NoResponse]
    /\ err = [w \in Workers |-> NoError]
    /\ enqueued = {}
    /\ taken = NoneTaken
    /\ response = NoResponses
    /\ outcome = NoOutcomes
    /\ digest = NoDigests
    /\ received = NoneReceived

Init ==
    /\ \E S \in SUBSET Keys : index = IndexOf(S)
    /\ connections \in 0..MaxConnections
    /\ \E S \in SUBSET Keys :
        /\ fs = [p \in { File(k) : k \in S } |-> OldBody]
        /\ dirs = { Dir(k.name) : k \in S }
    /\ \E S \in SUBSET Keys : ledger = SeqOfLines(1, S)
    /\ run = 1
    /\ Fresh
    /\ requests = [k \in Keys |-> 0]
    /\ denied = {}
    /\ prev = [how |-> "none", taken |-> NoneTaken, outcome |-> NoOutcomes,
               stale |-> Stale(fs)]

\* ------------------------------------------------------------ main thread

\* Lines 66-74: open "403" for reading and writing, read all of it.
OpenLedger ==
    /\ pc = "open"
    /\ \/ /\ x403_log' = ReadToString(ledger, 0).text
          /\ x403_set' = Lines(ReadToString(ledger, 0).text)
          /\ x403_pos' = ReadToString(ledger, 0).pos
          /\ names_left' = IndexNames(index)
          /\ pc' = "filter"
       \/ /\ pc' = "failed"
          /\ UNCHANGED << x403_log, x403_set, x403_pos, names_left >>
    /\ UNCHANGED << envVars, queue, n_todo, n_threads, spawned, errors,
                    n_done, bytes, printed, workerVars, histVars >>

\* The entries of one name that the skip filter keeps.
Kept(name) ==
    SelectSeq(VersionsOf(index, name),
              LAMBDA k : Pending(x403_set, fs, File(k)))

\* The work items pushed for one name, in order.
Pushed(name) == [i \in 1..Len(Kept(name)) |-> WorkItem(index, Kept(name)[i])]

\* Lines 78-87: one round of the outer loop, for the next name.
FilterName ==
    /\ pc = "filter"
    /\ names_left # <<>>
    /\ \/ /\ dirs' = dirs \cup { Dir(Head(names_left)) }
          /\ queue' = queue \o Pushed(Head(names_left))
          /\ n_todo' = n_todo + Len(Kept(Head(names_left)))
          /\ enqueued' =
                enqueued \cup
                    { Kept(Head(names_left))[i] :
                        i \in 1..Len(Kept(Head(names_left))) }
          /\ names_left' = Tail(names_left)
          /\ pc' = pc
       \/ /\ pc' = "failed"
          /\ UNCHANGED << dirs, queue, n_todo, enqueued, names_left >>
    /\ UNCHANGED << index, connections, fs, ledger, run, x403_pos, x403_log,
                    x403_set, n_threads, spawned, errors, n_done, bytes,
                    printed, workerVars, taken, response, outcome, digest,
                    received, requests, denied, prev >>

\* Lines 89-97: the loop is over; return when nothing is pending.
FilterDone ==
    /\ pc = "filter"
    /\ names_left = <<>>
    /\ IF NothingToDo(n_todo)
       THEN pc' = "done" /\ n_threads' = n_threads
       ELSE pc' = "resolve" /\ n_threads' = NThreads(connections, n_todo)
    /\ UNCHANGED << envVars, x403_pos, x403_log, x403_set, names_left, queue, n_todo,
                    spawned, errors, n_done, bytes, printed, workerVars,
                    histVars >>

\* Lines 99-111: resolve the host, build the client, make the shared state.
Resolve ==
    /\ pc = "resolve"
    /\ \/ pc' = (IF n_threads = 0 THEN "drain" ELSE "spawn")
       \/ pc' = "failed"
    /\ UNCHANGED << envVars, x403_pos, x403_log, x403_set, names_left, queue, n_todo,
                    n_threads, spawned, errors, n_done, bytes, printed,
                    workerVars, histVars >>

\* A scope entered before the host is resolved and the client built.
InScopeEarly(p) == p \in { "resolve", "spawn" }

\* thread::scope (line 113) is entered after lines 99-111.
InScope(p) == p = "spawn"

\* Lines 114-115: spawn the next worker.
Spawn ==
    /\ InScope(pc)
    /\ spawned < n_threads
    /\ spawned' = spawned + 1
    /\ wpc' = [wpc EXCEPT ![spawned + 1] = "pop"]
    /\ pc' = (IF pc = "spawn" /\ spawned + 1 = n_threads THEN "drain" ELSE pc)
    /\ UNCHANGED << envVars, x403_pos, x403_log, x403_set, names_left, queue, n_todo,
                    n_threads, errors, n_done, bytes, printed, item, resp,
                    err, histVars >>

\* Lines 156-162: take the error buffer and print what it held.
ReportDrain ==
    /\ pc = "drain"
    /\ printed' = printed \o Take(errors).taken
    /\ errors' = Take(errors).left
    /\ pc' = "load"
    /\ UNCHANGED << envVars, x403_pos, x403_log, x403_set, names_left, queue, n_todo,
                    n_threads, spawned, n_done, bytes, workerVars, histVars >>

\* A loop test against n_total, the size of the catalog.
LoopDoneTotal(done, todo) == done = Cardinality(DOMAIN index)

\* if n_done == n_todo { break; }
LoopDone(done, todo) == done = todo

\* Lines 163-174: load n_done, print the status line, break or sleep.
ReportLoad ==
    /\ pc = "load"
    /\ pc' = (IF LoopDone(n_done, n_todo) THEN "join" ELSE "drain")
    /\ UNCHANGED << envVars, x403_pos, x403_log, x403_set, names_left, queue, n_todo,
                    n_threads, spawned, errors, n_done, bytes, printed,
                    workerVars, histVars >>

\* Lines 176-179: the scope ends when every worker has, and the run returns.
Join ==
    /\ pc = "join"
    /\ \A w \in 1..spawned : wpc[w] = "exited"
    /\ pc' = "done"
    /\ UNCHANGED << envVars, x403_pos, x403_log, x403_set, names_left, queue, n_todo,
                    n_threads, spawned, errors, n_done, bytes, printed,
                    workerVars, histVars >>

\* ---------------------------------------------------------------- workers

\* What every worker step leaves alone in the main thread's state.
mainRest ==
    << pc, x403_log, x403_set, names_left, n_todo, n_threads, spawned,
       printed >>

\* Line 116-119: pop the next item under the queue's lock, or leave the loop.
Pop(w) ==
    /\ wpc[w] = "pop"
    /\ queue' = PopFront(queue).rest
    /\ IF PopFront(queue).some
       THEN /\ item' = [item EXCEPT ![w] = PopFront(queue).item]
            /\ taken' = [taken EXCEPT ![KeyOf(PopFront(queue).item)] = @ + 1]
            /\ wpc' = [wpc EXCEPT ![w] = "send"]
       ELSE /\ wpc' = [wpc EXCEPT ![w] = "exited"]
            /\ UNCHANGED << item, taken >>
    /\ UNCHANGED << envVars, mainRest, x403_pos, errors, n_done, bytes, resp,
                    err, enqueued, response, outcome, digest, received,
                    requests, denied, prev >>

\* Lines 124-129: send the GET and classify what came back.
Send(w) ==
    /\ wpc[w] = "send"
    /\ \E r \in Responses :
        /\ resp' = [resp EXCEPT ![w] = r]
        /\ response' = [response EXCEPT ![KeyOf(item[w])] = r]
        /\ requests' = [requests EXCEPT ![KeyOf(item[w])] = @ + 1]
        /\ IF r.kind = "error"
           THEN /\ err' = [err EXCEPT ![w] =
                             ErrorRecord(KeyOf(item[w]), "transport", "", "")]
                /\ outcome' = [outcome EXCEPT ![KeyOf(item[w])] = "Failed"]
                /\ wpc' = [wpc EXCEPT ![w] = "push"]
           ELSE IF IsForbidden(r.status)
           THEN /\ wpc' = [wpc EXCEPT ![w] = "write403"]
                /\ UNCHANGED << err, outcome >>
           ELSE IF ErrorForStatusFails(r.status)
           THEN /\ err' = [err EXCEPT ![w] =
                             ErrorRecord(KeyOf(item[w]), "status", "", "")]
                /\ outcome' = [outcome EXCEPT ![KeyOf(item[w])] = "Failed"]
                /\ wpc' = [wpc EXCEPT ![w] = "push"]
           ELSE /\ wpc' = [wpc EXCEPT ![w] = "open"]
                /\ UNCHANGED << err, outcome >>
    /\ UNCHANGED << envVars, mainRest, x403_pos, queue, errors, n_done,
                    bytes, item, enqueued, taken, digest, received, denied,
                    prev >>

\* Line 126: write the item's line through the shared handle x403_file.
Write403(w) ==
    /\ wpc[w] = "write403"
    /\ \/ /\ ledger' = WriteAt(ledger, x403_pos, LedgerLine(File(item[w])))
          /\ x403_pos' = x403_pos + Len(LedgerLine(File(item[w])))
          /\ outcome' = [outcome EXCEPT ![KeyOf(item[w])] = "Forbidden"]
          /\ denied' = denied \cup { KeyOf(item[w]) }
          /\ wpc' = [wpc EXCEPT ![w] = "inc"]
          /\ err' = err
       \/ /\ err' = [err EXCEPT ![w] =
                        ErrorRecord(KeyOf(item[w]), "storage", "", "")]
          /\ outcome' = [outcome EXCEPT ![KeyOf(item[w])] = "Failed"]
          /\ wpc' = [wpc EXCEPT ![w] = "push"]
          /\ UNCHANGED << ledger, x403_pos, denied >>
    /\ UNCHANGED << index, connections, fs, dirs, run, mainRest, queue,
                    errors, n_done, bytes, item, resp, enqueued, taken,
                    response, digest, received, requests, prev >>

\* Lines 130-135: create or truncate the partial file.
OpenPartial(w) ==
    /\ wpc[w] = "open"
    /\ \/ /\ fs' = OpenTruncate(fs, PartialFile(File(item[w])))
          /\ wpc' = [wpc EXCEPT ![w] = "copy"]
          /\ UNCHANGED << err, outcome >>
       \/ /\ err' = [err EXCEPT ![w] =
                        ErrorRecord(KeyOf(item[w]), "storage", "", "")]
          /\ outcome' = [outcome EXCEPT ![KeyOf(item[w])] = "Failed"]
          /\ wpc' = [wpc EXCEPT ![w] = "push"]
          /\ fs' = fs
    /\ UNCHANGED << index, connections, dirs, ledger, run, mainRest, x403_pos,
                    queue, errors, n_done, bytes, item, resp, enqueued, taken,
                    response, digest, received, requests, denied, prev >>

\* Line 136: stream the body into the partial file; the transfer or the
\* disk may fail with a prefix of the body written.
CopyTo(w) ==
    /\ wpc[w] = "copy"
    /\ \/ /\ fs' = WriteFile(fs, PartialFile(File(item[w])), resp[w].body)
          /\ received' =
                [received EXCEPT ![KeyOf(item[w])] = Len(resp[w].body)]
          /\ wpc' = [wpc EXCEPT ![w] = "count"]
          /\ UNCHANGED << err, outcome >>
       \/ /\ \E part \in Prefixes(resp[w].body) :
                /\ fs' = WriteFile(fs, PartialFile(File(item[w])), part)
                /\ received' =
                      [received EXCEPT ![KeyOf(item[w])] = Len(part)]
          /\ err' = [err EXCEPT ![w] =
                        ErrorRecord(KeyOf(item[w]), "copy", "", "")]
          /\ outcome' = [outcome EXCEPT ![KeyOf(item[w])] = "Failed"]
          /\ wpc' = [wpc EXCEPT ![w] = "push"]
    /\ UNCHANGED << index, connections, dirs, ledger, run, mainRest, x403_pos,
                    queue, errors, n_done, bytes, item, resp, enqueued, taken,
                    response, digest, requests, denied, prev >>

\* Line 137: bytes.fetch_add(b).
AddBytes(w) ==
    /\ wpc[w] = "count"
    /\ bytes' = FetchAdd(bytes, Len(resp[w].body))
    /\ wpc' = [wpc EXCEPT ![w] = "verify"]
    /\ UNCHANGED << envVars, mainRest, x403_pos, queue, errors, n_done, item,
                    resp, err, histVars >>

\* The lowercase hex digest of what the partial file of item k holds.
Hash(k) == EncodeLower(Sha256(fs[PartialFile(File(k))]))

\* Lines 138-145: seek to the start, hash the file, compare with cksum.
Verify(w) ==
    /\ wpc[w] = "verify"
    /\ \/ /\ ChecksumOk(Hash(item[w]), item[w].cksum)
          /\ digest' = [digest EXCEPT ![KeyOf(item[w])] = Hash(item[w])]
          /\ wpc' = [wpc EXCEPT ![w] = "rename"]
          /\ UNCHANGED << err, outcome >>
       \/ /\ ~ChecksumOk(Hash(item[w]), item[w].cksum)
          /\ digest' = [digest EXCEPT ![KeyOf(item[w])] = Hash(item[w])]
          /\ err' = [err EXCEPT ![w] =
                        ErrorRecord(KeyOf(item[w]), "checksum",
                                    item[w].cksum, Hash(item[w]))]
          /\ outcome' = [outcome EXCEPT ![KeyOf(item[w])] = "Failed"]
          /\ wpc' = [wpc EXCEPT ![w] = "push"]
       \/ /\ err' = [err EXCEPT ![w] =
                        ErrorRecord(KeyOf(item[w]), "storage", "", "")]
          /\ outcome' = [outcome EXCEPT ![KeyOf(item[w])] = "Failed"]
          /\ wpc' = [wpc EXCEPT ![w] = "push"]
          /\ digest' = digest
    /\ UNCHANGED << envVars, mainRest, x403_pos, queue, errors, n_done, bytes,
                    item, resp, enqueued, taken, response, received, requests,
                    denied, prev >>

\* Lines 146-147: close the partial file and rename it to the final path.
Rename(w) ==
    /\ wpc[w] = "rename"
    /\ \/ /\ fs' = RenameFile(fs, PartialFile(File(item[w])), File(item[w]))
          /\ outcome' = [outcome EXCEPT ![KeyOf(item[w])] = "Success"]
          /\ wpc' = [wpc EXCEPT ![w] = "inc"]
          /\ err' = err
       \/ /\ err' = [err EXCEPT ![w] =
                        ErrorRecord(KeyOf(item[w]), "storage", "", "")]
          /\ outcome' = [outcome EXCEPT ![KeyOf(item[w])] = "Failed"]
          /\ wpc' = [wpc EXCEPT ![w] = "push"]
          /\ fs' = fs
    /\ UNCHANGED << index, connections, dirs, ledger, run, mainRest, x403_pos,
                    queue, errors, n_done, bytes, item, resp, enqueued, taken,
                    response, digest, received, requests, denied, prev >>

\* Line 150: push the closure's error under the buffer's lock.
PushError(w) ==
    /\ wpc[w] = "push"
    /\ errors' = Append(errors, err[w])
    /\ wpc' = [wpc EXCEPT ![w] = "inc"]
    /\ UNCHANGED << envVars, mainRest, x403_pos, queue, n_done, bytes, item,
                    resp, err, histVars >>

\* Line 152: n_done.fetch_add(1), and back to the top of the loop.
IncDone(w) ==
    /\ wpc[w] = "inc"
    /\ n_done' = FetchAdd(n_done, 1)
    /\ wpc' = [wpc EXCEPT ![w] = "pop"]
    /\ item' = [item EXCEPT ![w] = NoItem]
    /\ resp' = [resp EXCEPT ![w] = NoResponse]
    /\ err' = [err EXCEPT ![w] = NoError]
    /\ UNCHANGED << envVars, mainRest, x403_pos, queue, errors, bytes,
                    histVars >>

\* ------------------------------------------------------------------- runs

\* A new process enters download_crates in the same directory, with the
\* same catalog; `how` tells how the process before it ended.
Restart(how) ==
    /\ run < MaxRuns
    /\ run' = run + 1
    /\ pc' = "open"
    /\ x403_pos' = 0
    /\ x403_log' = <<>>
    /\ x403_set' = {}
    /\ names_left' = <<>>
    /\ queue' = <<>>
    /\ n_todo' = 0
    /\ n_threads' = 0
    /\ spawned' = 0
    /\ errors' = <<>>
    /\ n_done' = 0
    /\ bytes' = 0
    /\ printed' = <<>>
    /\ wpc' = [w \in Workers |-> "unspawned"]
    /\ item' = [w \in Workers |-> NoItem]
    /\ resp' = [w \in Workers |-> NoResponse]
    /\ err' = [w \in Workers |-> NoError]
    /\ enqueued' = {}
    /\ taken' = NoneTaken
    /\ response' = NoResponses
    /\ outcome' = NoOutcomes
    /\ digest' = NoDigests
    /\ received' = NoneReceived
    /\ prev' = [how |-> how, taken |-> taken, outcome |-> outcome,
                stale |-> Stale(fs)]
    /\ UNCHANGED << index, connections, fs, dirs, ledger, requests, denied >>

\* The program has returned and is run again.
StartRun ==
    /\ pc \in { "done", "failed" }
    /\ Restart(pc)

\* The process is killed wherever it is, and the program is run again.
Crash ==
    /\ pc \notin { "done", "failed" }
    /\ Restart("killed")

\* ---------------------------------------------------------- specification

MainStep ==
    \/ OpenLedger
    \/ FilterName
    \/ FilterDone
    \/ Resolve
    \/ Spawn
    \/ ReportDrain
    \/ ReportLoad
    \/ Join

WorkerStep(w) ==
    \/ Pop(w)
    \/ Send(w)
    \/ Write403(w)
    \/ OpenPartial(w)
    \/ CopyTo(w)
    \/ AddBytes(w)
    \/ Verify(w)
    \/ Rename(w)
    \/ PushError(w)
    \/ IncDone(w)

\* One run of the program.
Next ==
    \/ MainStep
    \/ \E w \in Workers : WorkerStep(w)

Spec == Init /\ [][Next]_vars

\* The program run up to MaxRuns times in the same directory.
NextRuns ==
    \/ MainStep
    \/ \E w \in Workers : WorkerStep(w)
    \/ StartRun

SpecRuns == Init /\ [][NextRuns]_vars

\* Lines 66-97: the steps that load the ledger and build the queue.
SetupStep ==
    \/ OpenLedger
    \/ FilterName
    \/ FilterDone

\* A run whose process may be killed at any point, and the runs started
\* after a kill, each followed to the end of its skip filter.
NextCrash ==
    \/ run = 1 /\ MainStep
    \/ run = 1 /\ \E w \in Workers : WorkerStep(w)
    \/ run > 1 /\ SetupStep
    \/ Crash

SpecCrash == Init /\ [][NextCrash]_vars

\* One run under a scheduler that lets no runnable thread wait forever.
FairSpec ==
    /\ Init
    /\ [][Next]_vars
    /\ WF_vars(MainStep)
    /\ \A w \in Workers : WF_vars(WorkerStep(w))

\* ------------------------------------------------------------------ claims

\* The number of ErrorRecords for key k in a sequence of them.
CountFor(seq, k) == Cardinality({ i \in 1..Len(seq) : seq[i].key = k })

\* The ErrorRecords of key k that were pushed: still buffered, or printed.
PushedFor(k) == CountFor(errors, k) + CountFor(printed, k)

\* Key k has a terminal outcome and its worker has let go of it.
Finished(k) ==
    /\ outcome[k] # "none"
    /\ \A w \in Workers : KeyOf(item[w]) # k

\* The lowercase hex digest of the file at path p.
DigestAt(p) == EncodeLower(Sha256(fs[p]))

\* A step changes, creates or removes the file at path p.
Touches(p) ==
    \/ Exists(fs, p) # Exists(fs', p)
    \/ Exists(fs, p) /\ Exists(fs', p) /\ fs[p] # fs'[p]

\* Worker w renames a partial file whose digest it has found to be cksum.
VerifiedRename(w) ==
    /\ wpc[w] = "rename"
    /\ wpc'[w] = "inc"
    /\ Exists(fs, PartialFile(File(item[w])))
    /\ DigestAt(PartialFile(File(item[w]))) = item[w].cksum
    /\ digest[KeyOf(item[w])] = item[w].cksum

\* C1: in every state of a run, a file the run has placed at an item's final
\* path has content whose lowercase hex digest is the item's expected
\* checksum; a final path changes only by the rename of a worker that holds
\* the item and has compared the digest of its partial file successfully.
C1_VerifiedAtFinalPath ==
    /\ [](\A k \in enqueued :
            Exists(fs, File(k)) => DigestAt(File(k)) = index[k])
    /\ [][\A k \in Keys :
            Touches(File(k)) =>
                \E w \in Workers : KeyOf(item[w]) = k /\ VerifiedRename(w)]_vars

\* A worker has committed a file while the other item was still being written.
C1_Witness ==
    \E k \in enqueued :
        /\ Exists(fs, File(k))
        /\ outcome[k] = "Success"
        /\ \E j \in enqueued : j # k /\ Exists(fs, PartialFile(File(j)))

\* The keys of the items in the queue.
Queued == { KeyOf(queue[i]) : i \in 1..Len(queue) }

\* The keys pop_front has returned.
Popped == { k \in Keys : taken[k] > 0 }

\* C2: under every interleaving of the workers' pops, each enqueued item is
\* returned by pop to exactly one worker: none is handed out twice, no two
\* workers hold the same item or path, and every enqueued item is either
\* still in the queue, once, or was handed to a worker.
C2_PopExactlyOnce ==
    /\ \A k \in Keys : taken[k] <= 1
    /\ \A i, j \in 1..Len(queue) : i # j => KeyOf(queue[i]) # KeyOf(queue[j])
    /\ Queued \cap Popped = {}
    /\ Queued \cup Popped = enqueued
    /\ \A k \in Popped : outcome[k] = "none" => \E w \in Workers : KeyOf(item[w]) = k
    /\ \A v, w \in Workers :
        v # w /\ item[v] # NoItem /\ item[w] # NoItem =>
            /\ KeyOf(item[v]) # KeyOf(item[w])
            /\ File(item[v]) # File(item[w])
            /\ PartialFile(File(item[v])) # PartialFile(File(item[w]))

\* Two workers hold an item each, and the queue is empty.
C2_Witness ==
    /\ queue = <<>>
    /\ \E v, w \in Workers :
        v # w /\ wpc[v] = "send" /\ wpc[w] = "copy"

\* C3: n_done counts exactly the popped items whose worker is through with
\* them, whatever their outcome, and an item is counted only when its
\* outcome's effect is in place: the file at its final path, its line in the
\* ledger, or its ErrorRecord pushed.  So n_done <= popped <= n_todo, n_done
\* never decreases and grows by one at a time, and n_done = n_todo when the
\* run has ended.
C3_CompletedCount ==
    /\ [](/\ n_done = Cardinality({ k \in Keys : Finished(k) })
          /\ n_done <= Cardinality(Popped)
          /\ Cardinality(Popped) <= n_todo
          /\ \A k \in Keys :
                Finished(k) =>
                    /\ k \in Popped
                    /\ outcome[k] = "Success" => Exists(fs, File(k))
                    /\ outcome[k] = "Forbidden" => File(k) \in Lines(ledger)
                    /\ outcome[k] = "Failed" => PushedFor(k) = 1
          /\ pc = "done" => n_done = n_todo /\ n_todo = Cardinality(enqueued))
    /\ [][n_done' = n_done \/ n_done' = n_done + 1]_vars

\* A run has ended with one item committed and the other failed.
C3_Witness ==
    /\ pc = "done"
    /\ n_done = 2
    /\ \E j, k \in Keys : outcome[j] = "Success" /\ outcome[k] = "Failed"

\* The run is over: every enqueued item has a terminal outcome, the queue is
\* empty, all of them are counted, the reporter loop and the workers are out.
RunComplete ==
    /\ pc = "done"
    /\ queue = <<>>
    /\ n_done = n_todo
    /\ n_todo = Cardinality(enqueued)
    /\ \A k \in enqueued : outcome[k] # "none"
    /\ spawned = n_threads
    /\ \A w \in 1..n_threads : wpc[w] = "exited"

\* C4: with at least one item pending and a pool of 1 <= P <= N workers,
\* under fair scheduling and whatever each fetch ends in, the run comes to
\* its end with every item settled; a worker leaves its loop only when the
\* queue is empty, so a Failed item stops no worker.
C4_RunCompletes ==
    /\ (pc = "spawn" /\ n_threads >= 1 /\ n_threads <= n_todo) ~> RunComplete
    /\ [](\A w \in Workers : wpc[w] = "exited" => queue = <<>>)
    /\ [][\A w \in Workers :
            wpc[w] = "push" /\ wpc'[w] # "push" => wpc'[w] = "inc"]_vars
    /\ [][\A w \in Workers :
            wpc[w] = "inc" /\ wpc'[w] # "inc" => wpc'[w] = "pop"]_vars

\* A pool of two has settled two items, both Failed, and the run has ended.
C4_Witness ==
    /\ RunComplete
    /\ n_threads = 2
    /\ \A k \in enqueued : outcome[k] = "Failed"
    /\ n_todo = 2

\* C5: every Failed item is reported by a printed error line before the run
\* ends: when the reporter loop has ended, the error buffer is empty and
\* each ErrorRecord pushed has been printed.
C5_AllErrorsPrinted ==
    pc \in { "join", "done" } =>
        /\ errors = <<>>
        /\ \A k \in enqueued :
            outcome[k] = "Failed" /\ Finished(k) => CountFor(printed, k) = 1

\* The skip filter's loop has ended and no worker has been spawned.
FilterOver ==
    \/ pc = "filter" /\ names_left = <<>>
    \/ pc = "resolve"

\* C6: when the skip filter has ended, the queue holds the item (name,
\* version, cksum) of a catalog entry if and only if no file exists at its
\* final path and that path is not in the set loaded from the ledger; each
\* such item is there once, nothing else is, and n_todo is the queue's length.
C6_SkipFilter ==
    FilterOver =>
        /\ \A k \in DOMAIN index :
            (\E i \in 1..Len(queue) : queue[i] = WorkItem(index, k))
                <=> (~Exists(fs, File(k)) /\ File(k) \notin x403_set)
        /\ \A i \in 1..Len(queue) :
            /\ KeyOf(queue[i]) \in DOMAIN index
            /\ queue[i] = WorkItem(index, KeyOf(queue[i]))
            /\ \A j \in 1..Len(queue) : queue[i] = queue[j] => i = j
        /\ n_todo = Len(queue)
        /\ x403_set = Lines(ledger)

\* The filter has ended with one entry enqueued and one skipped for its
\* line in the ledger, though its file is absent.
C6_Witness ==
    /\ FilterOver
    /\ Len(queue) = 1
    /\ \E k \in DOMAIN index :
        /\ File(k) \in x403_set
        /\ ~Exists(fs, File(k))
        /\ k \notin Queued

\* The server answered the GET for key k with a 2xx status and a body whose
\* digest is the expected checksum.
GoodResponse(k) ==
    /\ response[k].kind = "response"
    /\ response[k].status >= 200
    /\ response[k].status < 300
    /\ EncodeLower(Sha256(response[k].body)) = index[k]

\* C7: when the response for an item is a success whose body digest is the
\* expected checksum and no storage error occurs, then once the worker is
\* through with the item the final path holds exactly the received bytes,
\* no partial file remains, the ledger has no line for it and no
\* ErrorRecord was pushed for it.
C7_SuccessCommit ==
    \A k \in Keys :
        Finished(k) /\ GoodResponse(k) /\ outcome[k] # "Failed" =>
            /\ outcome[k] = "Success"
            /\ Exists(fs, File(k))
            /\ fs[File(k)] = response[k].body
            /\ ~Exists(fs, PartialFile(File(k)))
            /\ File(k) \notin Lines(ledger)
            /\ \A i \in 1..Len(ledger) : ledger[i] # File(k)
            /\ PushedFor(k) = 0

\* An item was answered well and committed, and its worker has moved on.
C7_Witness ==
    \E k \in Keys :
        /\ Finished(k)
        /\ GoodResponse(k)
        /\ outcome[k] = "Success"
        /\ response[k].status = 200

\* The server answered the GET for key k with 403.
Got403(k) == response[k].kind = "response" /\ response[k].status = 403

\* How often the text of File(k) is a token of the ledger.
LedgerCount(k) == Cardinality({ i \in 1..Len(ledger) : ledger[i] = File(k) })

Writes403(w) == wpc[w] = "write403" /\ wpc'[w] = "inc"

AllPushed == printed \o errors

\* C9: when the digest the worker computes differs from the expected
\* checksum, then once the worker is through with the item no file exists at
\* the final path, the partial file is left with the received bytes, exactly
\* one ErrorRecord was pushed, naming the expected and the actual digest, the
\* ledger has no line for the item, and the item is counted.
C9_ChecksumMismatch ==
    \A k \in Keys :
        Finished(k) /\ digest[k] # "" /\ digest[k] # index[k] =>
            /\ outcome[k] = "Failed"
            /\ ~Exists(fs, File(k))
            /\ Exists(fs, PartialFile(File(k)))
            /\ fs[PartialFile(File(k))] = response[k].body
            /\ digest[k] = EncodeLower(Sha256(response[k].body))
            /\ PushedFor(k) = 1
            /\ \E i \in 1..Len(AllPushed) :
                AllPushed[i] = [key |-> k, kind |-> "checksum",
                                expected |-> index[k], actual |-> digest[k]]
            /\ LedgerCount(k) = 0
            /\ n_done >= 1

\* An item's body had the wrong digest, and its worker has moved on.
C9_Witness ==
    \E k \in Keys :
        /\ Finished(k)
        /\ digest[k] # ""
        /\ digest[k] # index[k]
        /\ Exists(fs, PartialFile(File(k)))

\* The GET for key k ended in a transport error.
TransportError(k) == response[k].kind = "error"

\* The GET for key k was answered with status s.
GotStatus(k, s) == response[k].kind = "response" /\ response[k].status = s

\* What C10 says of key k once its worker is through with it.
FailedOnce(k) ==
    /\ outcome[k] = "Failed"
    /\ PushedFor(k) = 1
    /\ ~Exists(fs, File(k))
    /\ LedgerCount(k) = 0
    /\ n_done >= 1

PrevReturned == run > 1 /\ prev.how = "done"

\* C11: when a run has returned and the program is run again with the same
\* catalog, disk and ledger, the queue the second run builds holds exactly
\* the items whose outcome in the first run was Failed; an item that ended
\* Success or Forbidden in the run before is neither enqueued nor fetched;
\* and within one run no item is fetched twice.
C11_Resumption ==
    /\ [](PrevReturned /\ FilterOver =>
            Queued = { k \in Keys : prev.outcome[k] = "Failed" })
    /\ [](\A k \in Keys :
            run > 1 /\ prev.outcome[k] \in { "Success", "Forbidden" } =>
                /\ k \notin enqueued
                /\ taken[k] = 0
                /\ response[k] = NoResponse)
    /\ [](\A k \in Keys : taken[k] <= 1)
    /\ [][\A k \in Keys :
            requests'[k] # requests[k] =>
                /\ requests'[k] = requests[k] + 1
                /\ response[k] = NoResponse]_vars

\* A second run has fetched again the item that failed in the first, and
\* has left alone the item that the first run committed.
C11_Witness ==
    /\ PrevReturned
    /\ \E k \in Keys :
        /\ prev.outcome[k] = "Failed"
        /\ k \in enqueued
        /\ requests[k] = 2
    /\ \E j \in Keys :
        /\ prev.outcome[j] \in { "Success", "Forbidden" }
        /\ requests[j] = 1
        /\ pc = "done"

\* The main thread is at a line after the early return of lines 89-92.
PastEarlyReturn == pc \in { "resolve", "spawn", "drain", "load", "join" }

\* C12: when the skip filter has kept nothing, the run returns from the end
\* of the filter loop: the main thread never reaches the lines that resolve
\* the host, build the client, spawn workers or run the reporter loop (whose
\* status line divides by n_todo), no worker exists and no GET is sent.
C12_NothingPending ==
    /\ [](PastEarlyReturn => n_todo > 0)
    /\ [](pc = "done" /\ n_todo = 0 =>
            /\ spawned = 0
            /\ \A w \in Workers : wpc[w] = "unspawned"
            /\ response = NoResponses
            /\ taken = NoneTaken
            /\ printed = <<>>
            /\ n_done = 0)
    /\ [][pc = "filter" /\ names_left = <<>> /\ n_todo = 0 =>
            /\ pc' = "done"
            /\ requests' = requests]_vars

\* A catalog with entries, all of them skipped, and the run has returned.
C12_Witness ==
    /\ pc = "done"
    /\ n_todo = 0
    /\ names_left = <<>>
    /\ DOMAIN index # {}
    /\ connections > 0

\* C13: for every connection count, 0 and counts above n_todo included, and
\* at least one pending item, the pool has min(connections, n_todo) workers,
\* and under fair scheduling a run that is past its setup ends with the
\* queue empty, n_done = n_todo and the reporter loop left.
C13_AnyConcurrency ==
    /\ [](pc \in { "drain", "load", "join" } =>
            /\ n_threads = Min(connections, n_todo)
            /\ spawned = n_threads)
    /\ (pc \in { "spawn", "drain" } /\ n_todo >= 1) ~>
            (pc = "done" /\ queue = <<>> /\ n_done = n_todo)

\* Key k was popped in this run and is not committed: its partial file was
\* not renamed to the final path and its line was not written to the ledger.
Uncommitted(k) ==
    taken[k] > 0 /\ outcome[k] \notin { "Success", "Forbidden" }

\* The keys that were popped and not committed when the process before this
\* one was killed.
LostByKill ==
    { k \in Keys :
        /\ prev.how = "killed"
        /\ prev.taken[k] > 0
        /\ prev.outcome[k] \notin { "Success", "Forbidden" } }

\* The final and the partial paths of the catalog's possible entries.
AllPaths == { File(k) : k \in Keys } \cup { PartialFile(File(k)) : k \in Keys }

\* C14: wherever the process is killed, an item that was popped and is not
\* yet renamed to its final path or written to the ledger has no file at its
\* final path; a worker's step touches no path but the partial path of the
\* item it holds (and its final path in the rename), so a worker in flight
\* leaves at most the one partial file of its item; and the skip filter of
\* the run started after the kill enqueues every such item again.
C14_CrashSafety ==
    /\ [](\A k \in Keys : Uncommitted(k) => ~Exists(fs, File(k)))
    /\ [][\A p \in AllPaths :
            Touches(p) =>
                \E w \in Workers :
                    /\ item[w] # NoItem
                    /\ wpc'[w] # wpc[w]
                    /\ \/ p = PartialFile(File(item[w]))
                       \/ p = File(item[w]) /\ wpc[w] = "rename"]_vars
    /\ [](\A v, w \in Workers :
            v # w /\ item[v] # NoItem => item[v] # item[w])
    /\ [](FilterOver => LostByKill \subseteq Queued)

\* The process was killed with two workers in flight, each with bytes in the
\* partial file of its item, and the next run has enqueued both items.
C14_Witness ==
    /\ FilterOver
    /\ \E k, j \in LostByKill :
        /\ k # j
        /\ prev.outcome[k] = "none"
        /\ prev.outcome[j] = "none"
        /\ { k, j } \subseteq prev.stale
        /\ { k, j } \subseteq Queued
        /\ ~Exists(fs, File(k))
        /\ Exists(fs, PartialFile(File(k)))

\* C15: a failure in the setup (opening or reading the ledger, creating a
\* directory while the queue is built, resolving the host, building the
\* client) ends the run with an error before any worker is spawned: the run
\* fails only from these steps, and in a failed run no worker exists, no
\* item was popped, no request was sent and n_done is 0.
C15_SetupFailure ==
    /\ [](pc = "failed" =>
            /\ spawned = 0
            /\ \A w \in Workers : wpc[w] = "unspawned" /\ item[w] = NoItem
            /\ taken = NoneTaken
            /\ response = NoResponses
            /\ n_done = 0
            /\ bytes = 0)
    /\ [][pc' = "failed" /\ pc # "failed" =>
            /\ pc \in { "open", "filter", "resolve" }
            /\ requests' = requests
            /\ fs' = fs
            /\ ledger' = ledger]_vars

\* The host could not be resolved or the client not built: the run has
\* failed with its queue built and not one item popped.
C15_Witness ==
    /\ pc = "failed"
    /\ n_threads >= 1
    /\ Len(queue) = n_todo
    /\ n_todo = NItems
    /\ dirs # {}

\* The tokens the file "403" holds beyond the text that was loaded from it.
LedgerTail == SubSeq(ledger, Len(x403_log) + 1, Len(ledger))

\* The keys that ended Forbidden in this run.
ForbiddenNow == { k \in Keys : outcome[k] = "Forbidden" }

RECURSIVE SumOver(_, _)
SumOver(f, S) ==
    IF S = {} THEN 0
    ELSE LET k == CHOOSE x \in S : TRUE IN f[k] + SumOver(f, S \ {k})

\* A worker is between the end of copy_to (line 136) and line 137.
AddPending(k) == \E w \in Workers : KeyOf(item[w]) = k /\ wpc[w] = "count"

\* copy_to has returned Ok for key k: the whole body was received.
Transferred(k) ==
    /\ response[k].kind = "response"
    /\ response[k].body # <<>>
    /\ received[k] = Len(response[k].body)

\* What line 137 has added to bytes for each key.
Counted ==
    [k \in Keys |->
        IF Transferred(k) /\ ~AddPending(k) THEN Len(response[k].body) ELSE 0]

\* C17 as stated, read at the points where no worker is between lines 136
\* and 137: bytes never decreases and equals the sum of the body bytes
\* received so far for all items, those of a transfer that failed part-way
\* included.
C17_AllBytesReceived ==
    /\ [][bytes' >= bytes]_vars
    /\ []((\A k \in Keys : ~AddPending(k)) =>
            bytes = SumOver(received, Keys))

\* C17: bytes never decreases and is, in every state, the sum of the body
\* lengths of the items whose transfer has completed and whose worker has
\* passed line 137, the items whose checksum then did not match included;
\* the bytes of a transfer that failed part-way are not in it.
C17_BytesCounted ==
    /\ [][bytes' >= bytes]_vars
    /\ [](bytes = SumOver(Counted, Keys))
    /\ [](\A k \in Keys :
            outcome[k] = "Failed" /\ ~Transferred(k) => Counted[k] = 0)

\* One item's body arrived whole and failed the checksum, the other's broke
\* off after a byte: bytes holds the first body's length only.
C17_Witness ==
    \E k, j \in Keys :
        /\ k # j
        /\ outcome[k] = "Failed"
        /\ Transferred(k)
        /\ digest[k] # ""
        /\ digest[k] # index[k]
        /\ outcome[j] = "Failed"
        /\ received[j] > 0
        /\ ~Transferred(j)
        /\ bytes = Len(response[k].body)

\* C18 as stated: the steps that build the queue change neither the files
\* nor the directories under crates/ nor the ledger.
C18_FilterPure ==
    [][pc = "filter" => fs' = fs /\ dirs' = dirs /\ ledger' = ledger]_vars

\* C18: the steps that build the queue change no file and no token of the
\* ledger, and do not move the ledger handle; each round of the loop makes
\* sure of the directory crates/<name> of the name it visits, so that at the
\* end of the loop every name of the catalog has its directory, the names
\* whose entries were all skipped included.
C18_FilterEffect ==
    /\ [][pc = "filter" =>
            /\ fs' = fs
            /\ ledger' = ledger
            /\ x403_pos' = x403_pos
            /\ \/ dirs' = dirs
               \/ /\ names_left # <<>>
                  /\ dirs' = dirs \cup { "crates/" \o Head(names_left) }]_vars
    /\ [](FilterOver =>
            \A k \in DOMAIN index : ("crates/" \o k.name) \in dirs)

\* The loop is over; it has created the directory of a name that had no
\* file and whose entry it skipped for its ledger line, and it has enqueued
\* the entry of another name.
C18_Witness ==
    /\ FilterOver
    /\ n_todo >= 1
    /\ \E k \in DOMAIN index :
        /\ File(k) \in x403_set
        /\ k \notin enqueued
        /\ \A j \in Keys : j.name = k.name => ~Exists(fs, File(j))
        /\ \A j \in enqueued : j.name # k.name
        /\ ("crates/" \o k.name) \in dirs

\* The keys whose closure returned an error that the worker has pushed.
FailedAndPushed ==
    { k \in Keys :
        /\ outcome[k] = "Failed"
        /\ \A w \in Workers : KeyOf(item[w]) = k => wpc[w] # "push" }

\* C19: the reporter takes the error buffer in one step under its lock: no
\* ErrorRecord is printed twice, a step either leaves the sequence of the
\* records printed or still buffered as it is (a drain moves them, it
\* neither drops nor repeats one) or is a worker's push that appends its one
\* record, and the records pushed so far are as many as the items that
\* have failed and whose worker is past the push.
C19_AtomicDrain ==
    /\ [](\A i, j \in 1..Len(printed) : printed[i] = printed[j] => i = j)
    /\ [](\A k \in Keys : CountFor(printed, k) <= 1 /\ PushedFor(k) <= 1)
    /\ [][\/ AllPushed' = AllPushed
          \/ \E w \in Workers :
                /\ wpc[w] = "push"
                /\ wpc'[w] = "inc"
                /\ AllPushed' = Append(AllPushed, err[w])]_vars
    /\ [](Len(AllPushed) = Cardinality(FailedAndPushed))

\* The reporter has taken and printed one record; another was pushed after
\* the take and waits in the buffer.
C19_Witness ==
    /\ pc = "load"
    /\ Len(printed) = 1
    /\ Len(errors) = 1
    /\ printed[1] # errors[1]

\* C20: a partial file left by an earlier attempt has no part in a later
\* one: the open of lines 130-135 leaves the partial file empty, after the
\* copy it holds exactly the bytes received in this attempt (all of the
\* body, or the prefix a broken transfer delivered), the digest compared
\* with the expected checksum is the digest of the body received in this
\* attempt, and the file at the final path of an item that succeeded holds
\* exactly that body.
C20_StalePartial ==
    /\ [][\A w \in Workers :
            wpc[w] = "open" /\ wpc'[w] = "copy" =>
                fs'[PartialFile(File(item[w]))] = <<>>]_vars
    /\ [](\A w \in Workers :
            wpc[w] \in { "count", "verify", "rename" } =>
                fs[PartialFile(File(item[w]))] = resp[w].body)
    /\ [](\A w \in Workers :
            wpc[w] = "push" /\ err[w].kind = "copy" =>
                /\ Len(fs[PartialFile(File(item[w]))]) = received[KeyOf(item[w])]
                /\ fs[PartialFile(File(item[w]))] \in Prefixes(resp[w].body))
    /\ [](\A k \in Keys :
            digest[k] # "" =>
                digest[k] = EncodeLower(Sha256(response[k].body)))
    /\ [](\A k \in Keys :
            outcome[k] = "Success" =>
                Exists(fs, File(k)) /\ fs[File(k)] = response[k].body)

\* The run before left bytes at the partial path of an item that failed;
\* this run has fetched the item again, and the body it received is at the
\* item's final path.
C20_Witness ==
    \E k \in prev.stale :
        /\ prev.outcome[k] = "Failed"
        /\ requests[k] = 2
        /\ outcome[k] = "Success"
        /\ fs[File(k)] = response[k].body
        /\ digest[k] = index[k]
        /\ ~Exists(fs, PartialFile(File(k)))

====
